---- MODULE Spec2Model ----
(***************************************************************************)
(* Job-ledger coordination of the OCR spot fleet.                          *)
(*                                                                         *)
(* The ledger is one DynamoDB table whose primary key is the pair          *)
(* (input_path, ocr_done): the status is part of the key, so a status      *)
(* change is a delete_item under the old key followed by a put_item under  *)
(* the new one.  Each store call is one atomic step; the processes         *)
(* (workers, the ingestor, the reset sweep) interleave between calls.      *)
(***************************************************************************)
EXTENDS Naturals, Integers, Sequences, FiniteSets, TLC

\* ------------------------------------------------------------------ bounds
NumPaths == 2
NumWorkers == 2
MaxCalls == 1
MaxResets == 1
MaxIngestRuns == 2
MaxLoads == 1
PageSize == 1

\* len(available_pdfs) >= 10 ends the claim scan early
SampleTarget == 10

Paths == 1..NumPaths
Workers == 1..NumWorkers

\* ------------------------------------------------------------------ ledger
Statuses == {"false", "in_process", "true", "error"}
Keys == Paths \X Statuses

NoAttr == <<>>
NoItem == [exists |-> FALSE, output_path |-> NoAttr, odoo_loaded |-> "absent"]

Item(out, odoo) == [exists |-> TRUE, output_path |-> out, odoo_loaded |-> odoo]

\* get_item / 'Item' in response
Has(t, p, s) == t[<<p, s>>].exists

\* delete_item(Key): unconditional, silent when the key is absent
DeleteItem(t, p, s) == [t EXCEPT ![<<p, s>>] = NoItem]

\* put_item(Item): unconditional, replaces whatever is stored under the key
PutItem(t, p, s, item) == [t EXCEPT ![<<p, s>>] = item]

\* update_item(Key, SET output_path = :v): an upsert, it creates the item
\* (with the key and output_path only) when the key is absent
UpdateItem(t, p, s, out) ==
    [t EXCEPT ![<<p, s>>] =
        IF @.exists THEN [@ EXCEPT !.output_path = out]
        ELSE Item(out, "absent")]

\* item.get('odoo_loaded', 'false')
GetOdooLoaded(item) ==
    IF item.odoo_loaded = "absent" THEN "false" ELSE item.odoo_loaded

StatusSet(t, p) == {s \in Statuses : Has(t, p, s)}

\* output path derived from the input path: <stem>_ocr<suffix> in the output bucket
generate_output_path(p) == <<"out", p>>

VARIABLES
    table,       \* the DynamoDB table
    pc,          \* per worker: position in process_single_pdf
    job,         \* per worker: pdf_item chosen by get_available_pdf
    avail,       \* per worker: available_pdfs collected by the scan
    scanKey,     \* per worker: first path of the next scan page
    calls,       \* per worker: calls of process_single_pdf so far
    rpc,         \* reset sweep: position
    rKey,        \* reset sweep: first path of the next scan page
    rItems,      \* reset sweep: items of the current page still to rewrite
    resets,      \* reset sweeps started
    ipc,         \* ingestor: position
    iPath,       \* ingestor: current catalog entry
    iFound,      \* ingestor: status under which get_item found the entry
    iRuns,       \* ingestion runs completed
    downstream,  \* per path: odoo_loaded as the downstream consumer set it
    returned,    \* per path: claims returned since its last Pending put
    lastObs,     \* per path: the statuses last observed in the table
    rStart,      \* paths 'in_process' when the sweep started, not written since
    lastCall,    \* the last call of a ledger operation made by a single caller
    orch,        \* the orchestrator process: its loop variables and exit
    ms,          \* milestone e-mails: the flags of a run and what was sent
    pct,         \* counts handed to a notification and the percentage computed
    local        \* the working directory workers share, and what each holds in it

vars == <<table, pc, job, avail, scanKey, calls, rpc, rKey, rItems, resets,
          ipc, iPath, iFound, iRuns, downstream, returned, lastObs, rStart,
          lastCall, orch, ms, pct, local>>

workerVars == <<pc, job, avail, scanKey, calls>>
resetVars == <<rpc, rKey, rItems, resets>>
ingestVars == <<ipc, iPath, iFound, iRuns>>
reportVars == <<orch, ms, pct, local>>

NoJob == [input_path |-> 0, odoo_loaded |-> "absent"]

\* processes that are not part of a run
NoOrch == [pc |-> "none"]
NoMilestones == [pc |-> "none"]
NoPercent == [pc |-> "none"]
NoLocal == [pc |-> "none"]

NoCall == [op |-> "none", input_path |-> 0, result |-> "none", fault |-> "none",
           found |-> FALSE, again |-> FALSE]

\* --------------------------------------------------------------- observers
\* what a reader of the table sees for each path: the statuses stored now,
\* or, while the path has no item at all, the statuses it saw last
Observe(obs, t) ==
    [p \in Paths |-> IF StatusSet(t, p) # {} THEN StatusSet(t, p) ELSE obs[p]]

\* every write of the table goes through here
Write(t) ==
    /\ table' = t
    /\ lastObs' = Observe(lastObs, t)

\* a worker or the ingestor wrote an item of path p
Wrote(p) == rStart' = rStart \ {p}

\* ------------------------------------------------------------------- scans
\* one page of table.scan(FilterExpression = Attr('ocr_done').eq(s)): the
\* store evaluates PageSize partitions per call, starting at partition k
PagePaths(t, k, s) == {p \in Paths : k <= p /\ p < k + PageSize /\ Has(t, p, s)}

\* the attributes of a scanned item the callers read (input_path, odoo_loaded)
ScanItem(t, p, s) == [input_path |-> p, odoo_loaded |-> t[<<p, s>>].odoo_loaded]

ScanPage(t, k, s) == {ScanItem(t, p, s) : p \in PagePaths(t, k, s)}

\* 'LastEvaluatedKey' in response
HasLastEvaluatedKey(k) == k + PageSize <= NumPaths

RECURSIVE PageItems(_, _, _, _)
\* response['Items'] of one page, in key order
PageItems(t, k, n, s) ==
    IF n = 0 \/ k > NumPaths THEN <<>>
    ELSE IF Has(t, k, s) THEN <<ScanItem(t, k, s)>> \o PageItems(t, k + 1, n - 1, s)
    ELSE PageItems(t, k + 1, n - 1, s)

\* ----------------------------------------------------------------- workers
\* new_item of get_available_pdf: the scan projects input_path, ocr_done and
\* odoo_loaded only, so 'output_path' in pdf_item never holds
ClaimedItem(pdf_item) ==
    Item(IF "output_path" \in DOMAIN pdf_item THEN pdf_item.output_path ELSE NoAttr,
         GetOdooLoaded(pdf_item))

\* the Done item written without the output_path it was given
SuccessItemNoOutputPath(output_path) == Item(NoAttr, "false")

\* Item of update_dynamodb_success
SuccessItem(output_path) == Item(output_path, "false")

\* Item of update_dynamodb_failure
FailureItem == Item(NoAttr, "false")

\* Item of revert_status
RevertItem == Item(NoAttr, "false")

\* a revert that quarantines whatever the reason
RevertNewStatusAlwaysError(error_occurred) == "error"

\* new_status of revert_status
RevertNewStatus(error_occurred) == IF error_occurred THEN "error" ELSE "false"

\* get_available_pdf, one scan page; after the last page random.choice
GetAvailablePdfScan(w) ==
    /\ pc[w] \in {"idle", "scan"}
    /\ pc[w] = "idle" => calls[w] < MaxCalls
    /\ LET found == avail[w] \cup ScanPage(table, scanKey[w], "false")
       IN IF HasLastEvaluatedKey(scanKey[w]) /\ Cardinality(found) < SampleTarget
          THEN /\ pc' = [pc EXCEPT ![w] = "scan"]
               /\ avail' = [avail EXCEPT ![w] = found]
               /\ scanKey' = [scanKey EXCEPT ![w] = @ + PageSize]
               /\ job' = job
          ELSE /\ avail' = [avail EXCEPT ![w] = {}]
               /\ scanKey' = [scanKey EXCEPT ![w] = 1]
               /\ IF found = {}
                  THEN /\ pc' = [pc EXCEPT ![w] = "idle"]
                       /\ job' = job
                  ELSE \E pdf_item \in found :
                       /\ pc' = [pc EXCEPT ![w] = "claim_delete"]
                       /\ job' = [job EXCEPT ![w] = pdf_item]
    /\ calls' = [calls EXCEPT ![w] = IF pc[w] = "idle" THEN @ + 1 ELSE @]
    /\ UNCHANGED <<table, lastObs, returned, downstream, resetVars, ingestVars, rStart,
                   lastCall, reportVars>>

\* get_available_pdf: delete_item(input_path, 'false')
GetAvailablePdfDelete(w) ==
    /\ pc[w] = "claim_delete"
    /\ Write(DeleteItem(table, job[w].input_path, "false"))
    /\ Wrote(job[w].input_path)
    /\ pc' = [pc EXCEPT ![w] = "claim_put"]
    /\ UNCHANGED <<job, avail, scanKey, calls, returned, downstream, resetVars,
                   ingestVars, lastCall, reportVars>>

\* get_available_pdf: put_item(new_item), return input_path
GetAvailablePdfPut(w) ==
    /\ pc[w] = "claim_put"
    /\ Write(PutItem(table, job[w].input_path, "in_process", ClaimedItem(job[w])))
    /\ Wrote(job[w].input_path)
    /\ pc' = [pc EXCEPT ![w] = "processing"]
    /\ returned' = [returned EXCEPT ![job[w].input_path] = IF @ < 2 THEN @ + 1 ELSE @]
    /\ UNCHANGED <<job, avail, scanKey, calls, downstream, resetVars, ingestVars,
                   lastCall, reportVars>>

\* get_available_pdf: ClientError from delete_item or put_item, return None
GetAvailablePdfClientError(w) ==
    /\ pc[w] \in {"claim_delete", "claim_put"}
    /\ pc' = [pc EXCEPT ![w] = "idle"]
    /\ job' = [job EXCEPT ![w] = NoJob]
    /\ UNCHANGED <<table, lastObs, avail, scanKey, calls, returned, downstream,
                   resetVars, ingestVars, rStart, lastCall, reportVars>>

\* the pipeline stage that ended the job calls its commit
StartCommit(w, next) ==
    /\ pc' = [pc EXCEPT ![w] = next]
    /\ UNCHANGED <<table, lastObs, job, avail, scanKey, calls, returned, downstream,
                   resetVars, ingestVars, rStart, lastCall, reportVars>>

\* process_next_pdf: download_pdf returned None, revert_status(s3_path)
DownloadPdfFails(w) ==
    /\ pc[w] = "processing"
    /\ StartCommit(w, "revert_false_delete")

\* process_single_pdf: apply_ocr returned (None, True), revert_status(error_occurred=True)
ApplyOcrFails(w) ==
    /\ pc[w] = "processing"
    /\ StartCommit(w, "revert_error_delete")

\* process_single_pdf: upload_pdf(ocr_output_path, input_path, is_historic) raises
\* TypeError (upload_pdf takes two arguments), caught by except Exception
UploadPdfTypeError(w) ==
    /\ pc[w] = "processing"
    /\ StartCommit(w, "except_delete")

\* upload_pdf(local_file_path, input_path): the S3 upload succeeded
UploadPdfSucceeds(w) ==
    /\ pc[w] = "processing"
    /\ StartCommit(w, "success_delete")

\* upload_pdf(local_file_path, input_path): ClientError or Exception
UploadPdfFails(w) ==
    /\ pc[w] = "processing"
    /\ StartCommit(w, "failure_delete")

\* the first store call of a commit: delete_item(input_path, 'in_process')
CommitDelete(w, next) ==
    /\ Write(DeleteItem(table, job[w].input_path, "in_process"))
    /\ Wrote(job[w].input_path)
    /\ pc' = [pc EXCEPT ![w] = next]
    /\ UNCHANGED <<job, avail, scanKey, calls, returned, downstream, resetVars,
                   ingestVars, lastCall, reportVars>>

\* the second store call of a commit: put_item under the new status
CommitPut(w, status, item) ==
    /\ Write(PutItem(table, job[w].input_path, status, item))
    /\ Wrote(job[w].input_path)
    /\ pc' = [pc EXCEPT ![w] = "idle"]
    /\ job' = [job EXCEPT ![w] = NoJob]
    /\ returned' = IF status = "false"
                   THEN [returned EXCEPT ![job[w].input_path] = 0]
                   ELSE returned
    /\ UNCHANGED <<avail, scanKey, calls, downstream, resetVars, ingestVars, lastCall,
                   reportVars>>

UpdateDynamodbSuccessDelete(w) ==
    /\ pc[w] = "success_delete"
    /\ CommitDelete(w, "success_put")

UpdateDynamodbSuccessPut(w) ==
    /\ pc[w] = "success_put"
    /\ CommitPut(w, "true", SuccessItem(generate_output_path(job[w].input_path)))

UpdateDynamodbFailureDelete(w) ==
    /\ pc[w] = "failure_delete"
    /\ CommitDelete(w, "failure_put")

UpdateDynamodbFailurePut(w) ==
    /\ pc[w] = "failure_put"
    /\ CommitPut(w, "false", FailureItem)

\* revert_status is called at three places: by process_next_pdf (error_occurred
\* left False), by process_single_pdf after apply_ocr, and by its handler of
\* any exception of the processing step (both with error_occurred = True)
RevertStatusDelete(w) ==
    /\ pc[w] \in {"revert_false_delete", "revert_error_delete", "except_delete"}
    /\ CommitDelete(w, CASE pc[w] = "revert_false_delete" -> "revert_false_put"
                         [] pc[w] = "revert_error_delete" -> "revert_error_put"
                         [] pc[w] = "except_delete" -> "except_put")

RevertStatusPut(w) ==
    /\ pc[w] \in {"revert_false_put", "revert_error_put", "except_put"}
    /\ CommitPut(w, RevertNewStatus(pc[w] \in {"revert_error_put", "except_put"}),
                 RevertItem)

\* ------------------------------------------------------------- reset sweep
\* Item put by reset_ocr_done_status
ResetItem(item) == Item(NoAttr, GetOdooLoaded(item))

\* a sweep that stops after its first page
ResetNextPcFirstPage(k) == "idle"

\* where the sweep goes once the current page has no item left
ResetNextPc(k) == IF k <= NumPaths THEN "scan" ELSE "idle"

\* reset_ocr_done_status: one page of the scan for ocr_done = 'in_process'
ResetOcrDoneStatusScan ==
    /\ rpc \in {"idle", "scan"}
    /\ rpc = "idle" => resets < MaxResets
    /\ resets' = IF rpc = "idle" THEN resets + 1 ELSE resets
    /\ rStart' = IF rpc = "idle"
                 THEN {p \in Paths : Has(table, p, "in_process")}
                 ELSE rStart
    /\ LET items == PageItems(table, rKey, PageSize, "in_process")
           next == rKey + PageSize
       IN /\ rItems' = items
          /\ rpc' = IF items # <<>> THEN "delete" ELSE ResetNextPc(next)
          /\ rKey' = IF items = <<>> /\ next > NumPaths THEN 1 ELSE next
    /\ UNCHANGED <<table, lastObs, returned, downstream, workerVars, ingestVars,
                   lastCall, reportVars>>

\* reset_ocr_done_status: delete_item(item['input_path'], 'in_process')
ResetOcrDoneStatusDelete ==
    /\ rpc = "delete"
    /\ Write(DeleteItem(table, Head(rItems).input_path, "in_process"))
    /\ rpc' = "put"
    /\ UNCHANGED <<rKey, rItems, resets, returned, downstream, workerVars, ingestVars,
                   rStart, lastCall, reportVars>>

\* reset_ocr_done_status: put_item under 'false', then the next item or page
ResetOcrDoneStatusPut ==
    /\ rpc = "put"
    /\ Write(PutItem(table, Head(rItems).input_path, "false", ResetItem(Head(rItems))))
    /\ returned' = [returned EXCEPT ![Head(rItems).input_path] = 0]
    /\ rItems' = Tail(rItems)
    /\ rpc' = IF Tail(rItems) # <<>> THEN "delete" ELSE ResetNextPc(rKey)
    /\ rKey' = IF Tail(rItems) = <<>> /\ rKey > NumPaths THEN 1 ELSE rKey
    /\ UNCHANGED <<resets, downstream, workerVars, ingestVars, rStart, lastCall, reportVars>>

\* ---------------------------------------------------------------- ingestor
\* states_to_check of _ensure_dynamodb_entry, and the three get_item calls of
\* generate_dynamodb_entries: 'error' is not looked up
StatesToCheck == <<"false", "in_process", "true">>

\* the new entry written without its output_path
NewEntryItemNoOutputPath(p) == Item(NoAttr, "false")

\* Item created for a catalog entry with no item found
NewEntryItem(p) == Item(generate_output_path(p), "false")

\* the catalog walk moves to the next entry, or the run ends
IngestAdvance(get) ==
    IF iPath < NumPaths
    THEN /\ iPath' = iPath + 1
         /\ ipc' = get
         /\ iFound' = 1
         /\ iRuns' = iRuns
    ELSE /\ iPath' = 1
         /\ ipc' = "idle"
         /\ iFound' = 1
         /\ iRuns' = iRuns + 1

\* one get_item(input_path, StatesToCheck[iFound]): the next state when the
\* key is absent, put when all are, update when the item found has no
\* output_path, and nothing to write when it has one
IngestGet(get, put, update) ==
    /\ LET state == StatesToCheck[iFound]
       IN IF Has(table, iPath, state)
          THEN IF table[<<iPath, state>>].output_path = NoAttr
               THEN /\ ipc' = update
                    /\ UNCHANGED <<iPath, iFound, iRuns>>
               ELSE IngestAdvance(get)
          ELSE IF iFound < Len(StatesToCheck)
               THEN /\ ipc' = get
                    /\ iFound' = iFound + 1
                    /\ UNCHANGED <<iPath, iRuns>>
               ELSE /\ ipc' = put
                    /\ UNCHANGED <<iPath, iFound, iRuns>>
    /\ UNCHANGED <<table, lastObs, returned, downstream, workerVars, resetVars, rStart,
                   lastCall, reportVars>>

\* put_item of the new entry: 'false', with output_path
IngestPut(get) ==
    /\ Write(PutItem(table, iPath, "false", NewEntryItem(iPath)))
    /\ returned' = [returned EXCEPT ![iPath] = 0]
    /\ Wrote(iPath)
    /\ IngestAdvance(get)
    /\ UNCHANGED <<downstream, workerVars, resetVars, lastCall, reportVars>>

\* update_item SET output_path under the key the item was found with
IngestUpdate(get) ==
    /\ Write(UpdateItem(table, iPath, StatesToCheck[iFound], generate_output_path(iPath)))
    /\ returned' = IF StatesToCheck[iFound] = "false"
                      /\ ~Has(table, iPath, "false")
                   THEN [returned EXCEPT ![iPath] = 0]
                   ELSE returned
    /\ Wrote(iPath)
    /\ IngestAdvance(get)
    /\ UNCHANGED <<downstream, workerVars, resetVars, lastCall, reportVars>>

\* generate_dynamodb_entries: the get_item calls for one PDF of the bucket
GenerateDynamodbEntriesGet ==
    /\ ipc \in {"idle", "get"}
    /\ ipc = "idle" => iRuns < MaxIngestRuns
    /\ IngestGet("get", "put", "update")

\* generate_dynamodb_entries: put_item of the new entry
GenerateDynamodbEntriesPut ==
    /\ ipc = "put"
    /\ IngestPut("get")

\* generate_dynamodb_entries: update_item SET output_path
GenerateDynamodbEntriesUpdate ==
    /\ ipc = "update"
    /\ IngestUpdate("get")

\* sync_odoo_to_s3_and_dynamodb calls _ensure_dynamodb_entry for each document:
\* the get_item loop over states_to_check
EnsureDynamodbEntryGet ==
    /\ ipc \in {"idle", "ensure_get"}
    /\ ipc = "idle" => iRuns < MaxIngestRuns
    /\ IngestGet("ensure_get", "ensure_put", "ensure_update")

\* _ensure_dynamodb_entry: put_item(item_data)
EnsureDynamodbEntryPut ==
    /\ ipc = "ensure_put"
    /\ IngestPut("ensure_get")

\* _ensure_dynamodb_entry: update_item SET output_path
EnsureDynamodbEntryUpdate ==
    /\ ipc = "ensure_update"
    /\ IngestUpdate("ensure_get")

\* -------------------------------------------------------------- downstream
\* the downstream consumer loads the job of a path and marks its items
DownstreamLoad(p) ==
    /\ downstream[p] = "false"
    /\ Cardinality({q \in Paths : downstream[q] = "true"}) < MaxLoads
    /\ StatusSet(table, p) # {}
    /\ Write([k \in Keys |->
                IF k[1] = p /\ table[k].exists
                THEN [table[k] EXCEPT !.odoo_loaded = "true"]
                ELSE table[k]])
    /\ downstream' = [downstream EXCEPT ![p] = "true"]
    /\ UNCHANGED <<returned, workerVars, resetVars, ingestVars, rStart, lastCall, reportVars>>

\* ----------------------------------------------------------- specification
Init ==
    /\ table = [k \in Keys |-> NoItem]
    /\ pc = [w \in Workers |-> "idle"]
    /\ job = [w \in Workers |-> NoJob]
    /\ avail = [w \in Workers |-> {}]
    /\ scanKey = [w \in Workers |-> 1]
    /\ calls = [w \in Workers |-> 0]
    /\ rpc = "idle"
    /\ rKey = 1
    /\ rItems = <<>>
    /\ resets = 0
    /\ ipc = "idle"
    /\ iPath = 1
    /\ iFound = 1
    /\ iRuns = 0
    /\ downstream = [p \in Paths |-> "false"]
    /\ returned = [p \in Paths |-> 0]
    /\ lastObs = [p \in Paths |-> {}]
    /\ rStart = {}
    /\ lastCall = NoCall
    /\ orch = NoOrch
    /\ ms = NoMilestones
    /\ pct = NoPercent
    /\ local = NoLocal

WorkerNext(w) ==
    \/ GetAvailablePdfScan(w)
    \/ GetAvailablePdfDelete(w)
    \/ GetAvailablePdfPut(w)
    \/ GetAvailablePdfClientError(w)
    \/ DownloadPdfFails(w)
    \/ ApplyOcrFails(w)
    \/ UploadPdfTypeError(w)
    \/ UploadPdfSucceeds(w)
    \/ UploadPdfFails(w)
    \/ UpdateDynamodbSuccessDelete(w)
    \/ UpdateDynamodbSuccessPut(w)
    \/ UpdateDynamodbFailureDelete(w)
    \/ UpdateDynamodbFailurePut(w)
    \/ RevertStatusDelete(w)
    \/ RevertStatusPut(w)

Next ==
    \/ \E w \in Workers : WorkerNext(w)
    \/ ResetOcrDoneStatusScan
    \/ ResetOcrDoneStatusDelete
    \/ ResetOcrDoneStatusPut
    \/ GenerateDynamodbEntriesGet
    \/ GenerateDynamodbEntriesPut
    \/ GenerateDynamodbEntriesUpdate
    \/ \E p \in Paths : DownstreamLoad(p)

Spec == Init /\ [][Next]_vars

\* ------------------------------------------------ ingestion, no other writer
\* the items a ledger can hold under a status: 'error' items are written by
\* revert_status only, which sets no output_path
LedgerItems(s) ==
    {NoItem, Item(NoAttr, "false")}
        \cup (IF s = "error" THEN {} ELSE {Item(<<"out">>, "false")})

\* any ledger the ingestor may find: each key absent, or an item with or
\* without output_path
InitialLedgers ==
    {t \in [Keys -> {NoItem, Item(NoAttr, "false"), Item(<<"out">>, "false")}] :
        \A k \in Keys : t[k] \in LedgerItems(k[2])}

\* the output_path of an item of a ledger is the one derived from its key
WithOutputPaths(t) ==
    [k \in Keys |->
        IF t[k].output_path = NoAttr THEN t[k]
        ELSE [t[k] EXCEPT !.output_path = generate_output_path(k[1])]]

InitIngest ==
    /\ table \in {WithOutputPaths(t) : t \in InitialLedgers}
    /\ lastObs = [p \in Paths |-> StatusSet(table, p)]
    /\ pc = [w \in Workers |-> "idle"]
    /\ job = [w \in Workers |-> NoJob]
    /\ avail = [w \in Workers |-> {}]
    /\ scanKey = [w \in Workers |-> 1]
    /\ calls = [w \in Workers |-> 0]
    /\ rpc = "idle"
    /\ rKey = 1
    /\ rItems = <<>>
    /\ resets = 0
    /\ ipc = "idle"
    /\ iPath = 1
    /\ iFound = 1
    /\ iRuns = 0
    /\ downstream = [p \in Paths |-> "false"]
    /\ returned = [p \in Paths |-> 0]
    /\ rStart = {}
    /\ lastCall = NoCall
    /\ orch = NoOrch
    /\ ms = NoMilestones
    /\ pct = NoPercent
    /\ local = NoLocal

NextIngest ==
    \/ GenerateDynamodbEntriesGet
    \/ GenerateDynamodbEntriesPut
    \/ GenerateDynamodbEntriesUpdate
    \/ EnsureDynamodbEntryGet
    \/ EnsureDynamodbEntryPut
    \/ EnsureDynamodbEntryUpdate

SpecIngest == InitIngest /\ [][NextIngest]_vars

\* --------------------------------------------- one caller, one call a step
\* the store call of a ledger operation that raises ClientError, if any
Faults == {"none", "delete", "put"}

\* the two store calls every status change is made of: delete_item under the
\* old key, put_item under the new one; a ClientError ends the operation
CallWrites(t, p, old, new, item, fault) ==
    CASE fault = "delete" -> t
      [] fault = "put" -> DeleteItem(t, p, old)
      [] OTHER -> PutItem(DeleteItem(t, p, old), p, new, item)

get_available_pdf(t, pdf_item, fault) ==
    CallWrites(t, pdf_item.input_path, "false", "in_process",
               ClaimedItem(pdf_item), fault)

\* a commit that takes a missing 'in_process' item for a job to withdraw
update_dynamodb_success_withdraw(t, p, output_path, fault) ==
    IF Has(t, p, "in_process") \/ fault # "none"
    THEN CallWrites(t, p, "in_process", "true", SuccessItem(output_path), fault)
    ELSE DeleteItem(t, p, "true")

update_dynamodb_success(t, p, output_path, fault) ==
    CallWrites(t, p, "in_process", "true", SuccessItem(output_path), fault)

update_dynamodb_failure(t, p, fault) ==
    CallWrites(t, p, "in_process", "false", FailureItem, fault)

revert_status(t, p, error_occurred, fault) ==
    CallWrites(t, p, "in_process", RevertNewStatus(error_occurred), RevertItem, fault)

\* what the caller gets back, and what the call met: `found` tells whether
\* the item the call deletes was there, `again` whether the call repeats the
\* one before it
Called(op, p, old, result, fault) ==
    lastCall' = [op |-> op, input_path |-> p, result |-> result, fault |-> fault,
                 found |-> p \in Paths /\ Has(table, p, old),
                 again |-> /\ lastCall.op = op
                           /\ lastCall.input_path = p
                           /\ lastCall.fault = fault]

\* available_pdfs after the scan of all pages
AvailablePdfs(t) == UNION {ScanPage(t, k, "false") : k \in Paths}

\* get_available_pdf(), no PDF available: returns None
GetAvailablePdfNone ==
    /\ AvailablePdfs(table) = {}
    /\ Called("get_available_pdf", 0, "false", "None", "none")
    /\ UNCHANGED <<table, lastObs, returned, downstream, workerVars, resetVars,
                   ingestVars, rStart, reportVars>>

\* get_available_pdf(): returns input_path, or None after a ClientError
GetAvailablePdfCall ==
    /\ Cardinality(AvailablePdfs(table)) <= SampleTarget
    /\ \E pdf_item \in AvailablePdfs(table), fault \in Faults :
          /\ Write(get_available_pdf(table, pdf_item, fault))
          /\ Called("get_available_pdf", pdf_item.input_path, "false",
                    IF fault = "none" THEN "input_path" ELSE "None", fault)
    /\ UNCHANGED <<returned, downstream, workerVars, resetVars, ingestVars, rStart,
                   reportVars>>

\* update_dynamodb_success(input_path, output_path): returns nothing, a
\* ClientError is printed
UpdateDynamodbSuccessCall ==
    /\ \E p \in Paths, fault \in Faults :
          /\ Write(update_dynamodb_success(table, p, generate_output_path(p), fault))
          /\ Called("update_dynamodb_success", p, "in_process", "None", fault)
    /\ UNCHANGED <<returned, downstream, workerVars, resetVars, ingestVars, rStart,
                   reportVars>>

\* update_dynamodb_failure(input_path)
UpdateDynamodbFailureCall ==
    /\ \E p \in Paths, fault \in Faults :
          /\ Write(update_dynamodb_failure(table, p, fault))
          /\ Called("update_dynamodb_failure", p, "in_process", "None", fault)
    /\ UNCHANGED <<returned, downstream, workerVars, resetVars, ingestVars, rStart,
                   reportVars>>

\* revert_status(input_path, error_occurred)
RevertStatusCall ==
    /\ \E p \in Paths, error_occurred \in BOOLEAN, fault \in Faults :
          /\ Write(revert_status(table, p, error_occurred, fault))
          /\ Called(IF error_occurred THEN "revert_status_error" ELSE "revert_status",
                    p, "in_process", "None", fault)
    /\ UNCHANGED <<returned, downstream, workerVars, resetVars, ingestVars, rStart,
                   reportVars>>

\* the ledgers with one item a path at most
OneItemLedgers ==
    {t \in InitialLedgers : \A p \in Paths : Cardinality(StatusSet(t, p)) <= 1}

InitCalls ==
    /\ table \in {WithOutputPaths(t) : t \in OneItemLedgers}
    /\ lastObs = [p \in Paths |-> StatusSet(table, p)]
    /\ pc = [w \in Workers |-> "idle"]
    /\ job = [w \in Workers |-> NoJob]
    /\ avail = [w \in Workers |-> {}]
    /\ scanKey = [w \in Workers |-> 1]
    /\ calls = [w \in Workers |-> 0]
    /\ rpc = "idle"
    /\ rKey = 1
    /\ rItems = <<>>
    /\ resets = 0
    /\ ipc = "idle"
    /\ iPath = 1
    /\ iFound = 1
    /\ iRuns = 0
    /\ downstream = [p \in Paths |-> "false"]
    /\ returned = [p \in Paths |-> 0]
    /\ rStart = {}
    /\ lastCall = NoCall
    /\ orch = NoOrch
    /\ ms = NoMilestones
    /\ pct = NoPercent
    /\ local = NoLocal

NextCalls ==
    \/ GetAvailablePdfNone
    \/ GetAvailablePdfCall
    \/ UpdateDynamodbSuccessCall
    \/ UpdateDynamodbFailureCall
    \/ RevertStatusCall

SpecCalls == InitCalls /\ [][NextCalls]_vars

\* ----------------------------------------------------- progress percentage
\* Python computes (completed / total) * 100 in binary64 floating point and
\* int() truncates the product.  A float is a sequence of MantissaBits bits,
\* most significant first, and an exponent; each operation rounds its exact
\* result to the nearest float, ties to the even mantissa.
MaxTotal == 50

MantissaBits == 53

\* the product x * 100 is formed in pieces of LimbBits bits
LimbBits == 20

RECURSIVE Pow2(_)
Pow2(i) ==
    IF i = 0 THEN 1
    ELSE LET h == Pow2(i \div 2) IN h * h * (IF i % 2 = 1 THEN 2 ELSE 1)

RECURSIVE Pow2Mod(_, _)
\* 2^i modulo t
Pow2Mod(i, t) ==
    IF i = 0 THEN 1 % t
    ELSE LET h == Pow2Mod(i \div 2, t)
         IN (((h * h) % t) * (IF i % 2 = 1 THEN 2 ELSE 1)) % t

\* the first n bits of r / t after the binary point (r < t), and the remainder
QuotientBits(r, t, n) ==
    [bits |-> [i \in 1..n |->
                  IF 2 * ((r * Pow2Mod(i - 1, t)) % t) >= t THEN 1 ELSE 0],
     rem |-> (r * Pow2Mod(n, t)) % t]

AddOne(bits) ==
    LET zeros == {i \in 1..Len(bits) : bits[i] = 0}
    IN IF zeros = {} THEN <<1>> \o [i \in 1..Len(bits) |-> 0]
       ELSE LET j == CHOOSE z \in zeros : \A y \in zeros : y <= z
            IN [i \in 1..Len(bits) |->
                   IF i < j THEN bits[i] ELSE IF i = j THEN 1 ELSE 0]

\* the exact bits cut to MantissaBits bits; sticky tells of nonzero bits beyond
\* those given; up is 1 when the rounding carried into a further bit
RoundToNearestEven(bits, sticky) ==
    LET keep == SubSeq(bits, 1, MantissaBits)
        guard == bits[MantissaBits + 1]
        rest == sticky \/ \E i \in (MantissaBits + 2)..Len(bits) : bits[i] = 1
        k == IF guard = 1 /\ (rest \/ keep[MantissaBits] = 1)
             THEN AddOne(keep) ELSE keep
    IN [bits |-> SubSeq(k, 1, MantissaBits), up |-> Len(k) - MantissaBits]

\* the number n in `width` bits
NatBits(n, width) == [i \in 1..width |-> (n \div Pow2(width - i)) % 2]

RECURSIVE BitsNat(_)
BitsNat(bits) ==
    IF bits = <<>> THEN 0
    ELSE IF Len(bits) = 1 THEN bits[1]
    ELSE LET h == Len(bits) \div 2
         IN BitsNat(SubSeq(bits, 1, h)) * Pow2(Len(bits) - h)
                + BitsNat(SubSeq(bits, h + 1, Len(bits)))

\* bits without its leading zeros
Significant(bits) ==
    LET ones == {i \in 1..Len(bits) : bits[i] = 1}
    IN IF ones = {} THEN <<>>
       ELSE SubSeq(bits, CHOOSE a \in ones : \A b \in ones : a <= b, Len(bits))

\* the exact product of the MantissaBits-bit number `bits` and the small
\* number f, computed on three limbs with carries
TimesBits(bits, f) ==
    LET padded == [i \in 1..(3 * LimbBits - Len(bits)) |-> 0] \o bits
        limb(k) == BitsNat(SubSeq(padded, (k - 1) * LimbBits + 1, k * LimbBits))
        low == limb(3) * f
        mid == limb(2) * f + low \div Pow2(LimbBits)
        high == limb(1) * f + mid \div Pow2(LimbBits)
    IN Significant(NatBits(high, LimbBits)
                       \o NatBits(mid % Pow2(LimbBits), LimbBits)
                       \o NatBits(low % Pow2(LimbBits), LimbBits))

RECURSIVE Normalise(_, _, _)
\* c * 2^z for the least z that makes it reach t, with z
Normalise(n, t, z) ==
    IF n >= t THEN [n |-> n, z |-> z] ELSE Normalise(2 * n, t, z + 1)

\* completed / total, for 0 < completed <= total
FloatDivide(completed, total) ==
    LET nz == Normalise(completed, total, 0)
        q == QuotientBits(nz.n - total, total, MantissaBits)
        m == RoundToNearestEven(<<1>> \o q.bits, q.rem # 0)
    IN [bits |-> m.bits, exp |-> m.up - nz.z - (MantissaBits - 1)]

\* x * 100
FloatTimes100(x) ==
    LET exact == TimesBits(x.bits, 100)
        m == RoundToNearestEven(exact, FALSE)
    IN [bits |-> m.bits, exp |-> x.exp + (Len(exact) - MantissaBits) + m.up]

\* int(x) for x >= 0: the bits before the binary point
FloatInt(x) ==
    IF MantissaBits + x.exp <= 0 THEN 0
    ELSE BitsNat(SubSeq(x.bits, 1, MantissaBits + x.exp))

\* int((completed / total) * 100), for 0 <= completed <= total, total > 0
progress_percent(completed, total) ==
    IF completed = 0 THEN 0
    ELSE FloatInt(FloatTimes100(FloatDivide(completed, total)))

\* counts a table can give: completed is one of the counters total sums
PercentInputs ==
    {[pc |-> "counts", completed |-> c, total |-> t, progress_percent |-> 0] :
        c \in 0..MaxTotal, t \in 0..MaxTotal}

InitPercent ==
    /\ pct \in {i \in PercentInputs : i.completed <= i.total}
    /\ local = NoLocal
    /\ table = [k \in Keys |-> NoItem]
    /\ lastObs = [p \in Paths |-> {}]
    /\ pc = [w \in Workers |-> "idle"]
    /\ job = [w \in Workers |-> NoJob]
    /\ avail = [w \in Workers |-> {}]
    /\ scanKey = [w \in Workers |-> 1]
    /\ calls = [w \in Workers |-> 0]
    /\ rpc = "idle"
    /\ rKey = 1
    /\ rItems = <<>>
    /\ resets = 0
    /\ ipc = "idle"
    /\ iPath = 1
    /\ iFound = 1
    /\ iRuns = 0
    /\ downstream = [p \in Paths |-> "false"]
    /\ returned = [p \in Paths |-> 0]
    /\ rStart = {}
    /\ lastCall = NoCall
    /\ orch = NoOrch
    /\ ms = NoMilestones

\* send_startup_email: progress_percent, 0 when total is 0
SendStartupEmailPercent ==
    /\ pct.pc = "counts"
    /\ pct' = [pct EXCEPT !.pc = "send_startup_email",
                          !.progress_percent =
                              IF pct.total > 0
                              THEN progress_percent(pct.completed, pct.total)
                              ELSE 0]
    /\ UNCHANGED <<table, lastObs, returned, downstream, workerVars, resetVars,
                   ingestVars, rStart, lastCall, orch, ms, local>>

\* check_and_send_milestone_email: returns when total is 0, else progress_percent
CheckAndSendMilestonePercent ==
    /\ pct.pc = "counts"
    /\ pct.total # 0
    /\ pct' = [pct EXCEPT !.pc = "check_and_send_milestone_email",
                          !.progress_percent =
                              progress_percent(pct.completed, pct.total)]
    /\ UNCHANGED <<table, lastObs, returned, downstream, workerVars, resetVars,
                   ingestVars, rStart, lastCall, orch, ms, local>>

NextPercent ==
    \/ SendStartupEmailPercent
    \/ CheckAndSendMilestonePercent

SpecPercent == InitPercent /\ [][NextPercent]_vars

\* ------------------------------------------------------------- milestones
\* check_and_send_milestone_email is called MaxChecks times with counts from
\* a grid of multiples of CountStep; sync_odoo_to_s3_and_dynamodb walks
\* MaxDocs documents, of which at most MaxUnprocessed are skipped or fail.
\* Each send_sync_progress_email is one step.
MaxChecks == 3

CountStep == 50

MaxSteps == 4

MaxDocs == 102

MaxUnprocessed == 1

\* `completed >= 100`, `processed_count == 100`
AbsoluteMilestone == 100

Milestones == <<20, 40, 80, 100>>

\* the keys of the dict literal milestones_sent: the key 100 is written twice
\* (absolute count, percentage) and the dict holds it once
MilestoneKeys == {AbsoluteMilestone} \cup {Milestones[i] : i \in 1..Len(Milestones)}

\* the notifications of check_and_send_milestone_email
Notifications ==
    {<<"files", AbsoluteMilestone>>}
        \cup {<<"percent", Milestones[i]>> : i \in 1..Len(Milestones)}

\* the notifications of sync_odoo_to_s3_and_dynamodb
SyncNotifications ==
    {<<"percent", 10>>, <<"percent", 50>>, <<"files", AbsoluteMilestone>>,
     <<"percent", 100>>}

\* send_email: the message is sent; SES refuses it (ClientError, caught,
\* returns False); the call raises anything else (not caught there)
SendOutcomes == {"sent", "ClientError", "Exception"}

\* the counts at or above the threshold of notification n
AtOrAbove(n, counts) ==
    IF n[1] = "files" THEN counts.completed >= n[2]
    ELSE counts.total > 0 /\ counts.completed * 100 >= n[2] * counts.total

MilestoneCounts ==
    {[completed |-> c * CountStep, total |-> t * CountStep] :
        c \in 0..MaxSteps, t \in 0..MaxSteps}

\* milestones_sent[key] = True without any send in between
MarkSentNever(milestones_sent, key) == milestones_sent

\* self.milestones_sent[key] = True
MarkSent(milestones_sent, key) == [milestones_sent EXCEPT ![key] = TRUE]

\* one more in the count f[n]
Counted(f, n, yes) == IF yes THEN [f EXCEPT ![n] = @ + 1] ELSE f

OrchestratorMilestones ==
    [run |-> "orchestrator", pc |-> "idle", i |-> 1,
     counts |-> [completed |-> 0, total |-> 0], progress_percent |-> 0,
     milestones_sent |-> [k \in MilestoneKeys |-> FALSE],
     sent |-> [n \in Notifications |-> 0],
     tried |-> [n \in Notifications |-> 0],
     polled |-> [n \in Notifications |-> 0],
     checks |-> 0]

SyncMilestones(total_docs) ==
    [run |-> "sync", pc |-> IF total_docs = 0 THEN "finish" ELSE "mail10",
     index |-> 1, total_docs |-> total_docs, processed_count |-> 0,
     email_10_sent |-> FALSE, email_50_sent |-> FALSE,
     email_100_files_sent |-> FALSE,
     sent |-> [n \in SyncNotifications |-> 0],
     running |-> TRUE]

\* no process touches the ledger
LedgerAtRest ==
    /\ pc = [w \in Workers |-> "idle"]
    /\ job = [w \in Workers |-> NoJob]
    /\ avail = [w \in Workers |-> {}]
    /\ scanKey = [w \in Workers |-> 1]
    /\ calls = [w \in Workers |-> 0]
    /\ rpc = "idle"
    /\ rKey = 1
    /\ rItems = <<>>
    /\ resets = 0
    /\ ipc = "idle"
    /\ iPath = 1
    /\ iFound = 1
    /\ iRuns = 0
    /\ downstream = [p \in Paths |-> "false"]
    /\ returned = [p \in Paths |-> 0]
    /\ rStart = {}
    /\ lastCall = NoCall

InitMilestones ==
    /\ ms \in {OrchestratorMilestones}
                 \cup {SyncMilestones(t) : t \in {0, 1, MaxDocs}}
    /\ table = [k \in Keys |-> NoItem]
    /\ lastObs = [p \in Paths |-> {}]
    /\ LedgerAtRest
    /\ orch = NoOrch
    /\ pct = NoPercent
    /\ local = NoLocal

MilestoneFrame ==
    UNCHANGED <<table, lastObs, returned, downstream, workerVars, resetVars,
                ingestVars, rStart, lastCall, orch, pct, local>>

\* check_and_send_milestone_email(counts) up to the first condition: it
\* returns at once when total is 0
BeginCheck(m, counts) ==
    [m EXCEPT
        !.counts = [completed |-> counts.completed, total |-> counts.total],
        !.checks = @ + 1,
        !.polled = [n \in Notifications |->
                       IF AtOrAbove(n, counts) THEN @[n] + 1 ELSE @[n]],
        !.progress_percent =
            IF counts.total = 0 THEN 0
            ELSE progress_percent(counts.completed, counts.total),
        !.pc = IF counts.total = 0 THEN "idle" ELSE "files"]

\* a call of check_and_send_milestone_email with any counts
CheckAndSendMilestoneEmail ==
    /\ ms.run = "orchestrator"
    /\ ms.pc = "idle"
    /\ ms.checks < MaxChecks
    /\ \E counts \in {c \in MilestoneCounts : c.completed <= c.total} :
          ms' = BeginCheck(ms, counts)
    /\ MilestoneFrame

\* `if completed >= 100 and not self.milestones_sent[100]`
MilestoneFiles ==
    /\ ms.run = "orchestrator"
    /\ ms.pc = "files"
    /\ LET n == <<"files", AbsoluteMilestone>>
       IN IF ms.counts.completed >= AbsoluteMilestone
                /\ ~ms.milestones_sent[AbsoluteMilestone]
          THEN \E o \in SendOutcomes :
                  ms' = [ms EXCEPT
                            !.tried = Counted(@, n, TRUE),
                            !.sent = Counted(@, n, o = "sent"),
                            !.milestones_sent =
                                IF o = "Exception" THEN @
                                ELSE MarkSent(@, AbsoluteMilestone),
                            !.i = 1,
                            !.pc = IF o = "Exception" THEN "raised" ELSE "percent"]
          ELSE ms' = [ms EXCEPT !.i = 1, !.pc = "percent"]
    /\ MilestoneFrame

\* one turn of `for milestone in milestones`
MilestonePercent ==
    /\ ms.run = "orchestrator"
    /\ ms.pc = "percent"
    /\ LET milestone == Milestones[ms.i]
           n == <<"percent", milestone>>
           after == IF ms.i = Len(Milestones) THEN "idle" ELSE "percent"
           next == IF ms.i = Len(Milestones) THEN 1 ELSE ms.i + 1
       IN IF ms.progress_percent >= milestone /\ ~ms.milestones_sent[milestone]
          THEN \E o \in SendOutcomes :
                  ms' = [ms EXCEPT
                            !.tried = Counted(@, n, TRUE),
                            !.sent = Counted(@, n, o = "sent"),
                            !.milestones_sent =
                                IF o = "Exception" THEN @
                                ELSE MarkSent(@, milestone),
                            !.i = IF o = "Exception" THEN @ ELSE next,
                            !.pc = IF o = "Exception" THEN "raised" ELSE after]
          ELSE ms' = [ms EXCEPT !.i = next, !.pc = after]
    /\ MilestoneFrame

\* the loop body of sync_odoo_to_s3_and_dynamodb after an exception, and after
\* the document: the next document, or the end of the loop
SyncNextDoc(m) ==
    IF m.index = m.total_docs THEN [m EXCEPT !.pc = "finish"]
    ELSE [m EXCEPT !.index = @ + 1, !.pc = "mail10"]

\* the documents passed without processed_count += 1
Unprocessed(m) == m.index - 1 - m.processed_count

\* an exception in the loop body leaves the document unprocessed
SyncOutcomes(m) ==
    {o \in SendOutcomes : o = "Exception" => Unprocessed(m) < MaxUnprocessed}

\* `if progress_percent >= 10 and not email_10_sent`
SyncMail10 ==
    /\ ms.run = "sync"
    /\ ms.pc = "mail10"
    /\ LET n == <<"percent", 10>>
       IN IF progress_percent(ms.index, ms.total_docs) >= 10 /\ ~ms.email_10_sent
          THEN \E o \in SyncOutcomes(ms) :
                  LET m == [ms EXCEPT !.sent = Counted(@, n, o = "sent")]
                  IN ms' = IF o = "Exception" THEN SyncNextDoc(m)
                           ELSE [m EXCEPT !.email_10_sent = TRUE, !.pc = "mail50"]
          ELSE ms' = [ms EXCEPT !.pc = "mail50"]
    /\ MilestoneFrame

\* `if progress_percent >= 50 and not email_50_sent`
SyncMail50 ==
    /\ ms.run = "sync"
    /\ ms.pc = "mail50"
    /\ LET n == <<"percent", 50>>
       IN IF progress_percent(ms.index, ms.total_docs) >= 50 /\ ~ms.email_50_sent
          THEN \E o \in SyncOutcomes(ms) :
                  LET m == [ms EXCEPT !.sent = Counted(@, n, o = "sent")]
                  IN ms' = IF o = "Exception" THEN SyncNextDoc(m)
                           ELSE [m EXCEPT !.email_50_sent = TRUE, !.pc = "mail100"]
          ELSE ms' = [ms EXCEPT !.pc = "mail100"]
    /\ MilestoneFrame

\* `if processed_count == 100 and not email_100_files_sent`
SyncMail100Files ==
    /\ ms.run = "sync"
    /\ ms.pc = "mail100"
    /\ LET n == <<"files", AbsoluteMilestone>>
       IN IF ms.processed_count = AbsoluteMilestone /\ ~ms.email_100_files_sent
          THEN \E o \in SyncOutcomes(ms) :
                  LET m == [ms EXCEPT !.sent = Counted(@, n, o = "sent")]
                  IN ms' = IF o = "Exception" THEN SyncNextDoc(m)
                           ELSE [m EXCEPT !.email_100_files_sent = TRUE,
                                          !.pc = "doc"]
          ELSE ms' = [ms EXCEPT !.pc = "doc"]
    /\ MilestoneFrame

\* the rest of the loop body: the document is uploaded and registered
\* (processed_count += 1), or it is skipped or fails (the counters
\* skipped_count and error_count are only reported)
SyncDocument ==
    /\ ms.run = "sync"
    /\ ms.pc = "doc"
    /\ \E processed \in {b \in BOOLEAN : ~b => Unprocessed(ms) < MaxUnprocessed} :
          ms' = SyncNextDoc([ms EXCEPT !.processed_count =
                                          IF processed THEN @ + 1 ELSE @])
    /\ MilestoneFrame

\* after the loop: send_sync_progress_email(100, ...); an exception goes to
\* the outer `except Exception`
SyncFinish ==
    /\ ms.run = "sync"
    /\ ms.pc = "finish"
    /\ \E o \in SendOutcomes :
          ms' = [ms EXCEPT !.sent = Counted(@, <<"percent", 100>>, o = "sent"),
                           !.pc = "done"]
    /\ MilestoneFrame

\* odoo_to_s3_nohup.py: OdooS3SyncDaemon installs signal_handler for SIGTERM
\* and SIGINT and runs the synchronisation. signal_handler(signum, frame)
\* logs and sets self.running = False; the interpreter then resumes the
\* interrupted code where it was
SignalHandler ==
    /\ ms.run = "sync"
    /\ ms.pc # "done"
    /\ ms.running
    /\ ms' = [ms EXCEPT !.running = FALSE]
    /\ MilestoneFrame

NextMilestones ==
    \/ SignalHandler
    \/ CheckAndSendMilestoneEmail
    \/ MilestoneFiles
    \/ MilestonePercent
    \/ SyncMail10
    \/ SyncMail50
    \/ SyncMail100Files
    \/ SyncDocument
    \/ SyncFinish

SpecMilestones == InitMilestones /\ [][NextMilestones]_vars

\* ----------------------------------------------------------- orchestrator
\* One process runs OCROrchestrator.run_continuous_processing (main_run.py) or
\* FullOCRProcessor.process_continuous (full_process.py) on the ledger; every
\* ledger operation and every notification is one step, and the reset sweep
\* may run beside it.
MaxIterationLimit == 2

\* `if consecutive_no_files >= 3`
IdleLimit == 3

\* `processed_in_session % 5 == 0 or error_in_session % 5 == 0`
CountsEvery == 5

\* `if iteration % 10 == 1 and iteration > 1`
QuickCheckEvery == 10

NoCounts == [pending |-> 0, in_process |-> 0, completed |-> 0, errors |-> 0]

\* get_table_counts never follows LastEvaluatedKey
CountsNoLastEvaluatedKey(k) == FALSE

\* last_evaluated_key = response.get('LastEvaluatedKey')
CountsLastEvaluatedKey(k) == HasLastEvaluatedKey(k)

RECURSIVE CountPages(_, _, _)
\* the while loop of get_table_counts from the page that starts at partition k
CountPages(t, k, acc) ==
    LET page == {key \in Keys : k <= key[1] /\ key[1] < k + PageSize /\ t[key].exists}
        n(s) == Cardinality({key \in page : key[2] = s})
        sum == [pending |-> acc.pending + n("false"),
                in_process |-> acc.in_process + n("in_process"),
                completed |-> acc.completed + n("true"),
                errors |-> acc.errors + n("error")]
    IN IF CountsLastEvaluatedKey(k) THEN CountPages(t, k + PageSize, sum) ELSE sum

get_table_counts(t) ==
    LET c == CountPages(t, 1, NoCounts)
    IN [pending |-> c.pending, in_process |-> c.in_process,
        completed |-> c.completed, errors |-> c.errors,
        total |-> c.pending + c.in_process + c.completed + c.errors]

\* get_quick_pending_count: the Count of all pages, 0 after a ClientError
get_quick_pending_count(t, fault) ==
    IF fault # "none" THEN 0
    ELSE Cardinality(UNION {PagePaths(t, k, "false") : k \in Paths})

\* the scans of the orchestrator answer, or raise ClientError
ScanFaults == {"none", "ClientError"}

\* consecutive_no_files keeps its value after a failed job
ConsecutiveNoFilesKept(consecutive_no_files, result) ==
    IF result = "False" THEN consecutive_no_files + 1 ELSE consecutive_no_files

\* consecutive_no_files after process_single_pdf returned result
ConsecutiveNoFiles(consecutive_no_files, result) ==
    IF result = "False" THEN consecutive_no_files + 1 ELSE 0

\* the orchestrator before its first statement
OrchStart(program, max_iterations) ==
    [program |-> program,
     pc |-> IF program = "run_continuous_processing" THEN "start" ELSE "loop",
     max_iterations |-> max_iterations,
     iteration |-> 0, consecutive_no_files |-> 0,
     processed_in_session |-> 0, error_in_session |-> 0, processed_count |-> 0,
     config |-> "valid",
     result |-> "none", input_path |-> 0, got |-> 0, failure |-> "none",
     counts |-> get_table_counts([k \in Keys |-> NoItem]),
     results |-> <<>>, stopped |-> "no", exit |-> "none", cause |-> "none"]

\* sys.exit(code)
Exit(o, code, cause) == [o EXCEPT !.pc = "exit", !.exit = code, !.cause = cause]

InitOrch ==
    /\ table \in {t \in InitialLedgers : \A k \in Keys : t[k].output_path = NoAttr}
    /\ lastObs = [p \in Paths |-> StatusSet(table, p)]
    /\ LedgerAtRest
    /\ orch \in {OrchStart("run_continuous_processing", 0)}
                   \cup {OrchStart("process_continuous", m) : m \in 0..MaxIterationLimit}
    /\ ms = OrchestratorMilestones
    /\ pct = NoPercent
    /\ local = NoLocal

\* the orchestrator writes an item of path p
OrchWrites(t, p) ==
    /\ Write(t)
    /\ Wrote(p)
    /\ UNCHANGED <<returned, downstream, workerVars, resetVars, ingestVars,
                   lastCall, ms, pct, local>>

\* the orchestrator leaves the table alone
OrchReads ==
    UNCHANGED <<table, lastObs, rStart, returned, downstream, workerVars,
                resetVars, ingestVars, lastCall, pct, local>>

\* run_continuous_processing: initial_counts = self.get_table_counts()
RunContinuousProcessing ==
    /\ orch.pc = "start"
    /\ \E fault \in IF orch.config = "invalid store" THEN ScanFaults \ {"none"}
                     ELSE ScanFaults :
          orch' = IF fault # "none" THEN Exit(orch, "1", "store")
                  ELSE [orch EXCEPT !.counts = get_table_counts(table),
                                    !.pc = "startup_email"]
    /\ OrchReads
    /\ UNCHANGED ms

\* send_startup_email, then `if pending == 0 and in_process == 0: return True`
SendStartupEmail ==
    /\ orch.pc = "startup_email"
    /\ \E o \in IF orch.config = "invalid mail" THEN SendOutcomes \ {"sent"}
                 ELSE SendOutcomes :
          orch' = IF o = "Exception" THEN Exit(orch, "1", "notifier")
                  ELSE IF orch.counts.pending = 0 /\ orch.counts.in_process = 0
                       THEN Exit(orch, "0", "nothing pending")
                       ELSE [orch EXCEPT !.pc = "loop"]
    /\ OrchReads
    /\ UNCHANGED ms

\* `while True: iteration += 1`, with the quick check of every tenth turn
\* (NumPaths jobs end the loop before its eleventh turn)
RunContinuousIterate ==
    /\ orch.program = "run_continuous_processing"
    /\ orch.pc = "loop"
    /\ ms.pc = "idle"
    /\ LET iteration == orch.iteration + 1
           o == [orch EXCEPT !.iteration = iteration, !.result = "none", !.got = 0,
                             !.failure = "none"]
       IN IF iteration % QuickCheckEvery = 1 /\ iteration > 1
          THEN \E fault \in ScanFaults :
                  orch' = IF get_quick_pending_count(table, fault) = 0
                          THEN [o EXCEPT !.pc = "final", !.stopped = "quick"]
                          ELSE [o EXCEPT !.pc = "process"]
          ELSE orch' = [o EXCEPT !.pc = "process"]
    /\ OrchReads
    /\ UNCHANGED ms

\* process_continuous: the max_iterations test, then iteration += 1
ProcessContinuousIterate ==
    /\ orch.program = "process_continuous"
    /\ orch.pc = "loop"
    /\ orch' = IF orch.max_iterations # 0 /\ orch.iteration >= orch.max_iterations
               THEN [orch EXCEPT !.pc = "return", !.stopped = "max_iterations"]
               ELSE [orch EXCEPT !.iteration = @ + 1, !.result = "none", !.got = 0,
                                 !.failure = "none", !.pc = "process"]
    /\ OrchReads
    /\ UNCHANGED ms

\* process_next_pdf: get_available_pdf; no s3_path makes process_single_pdf
\* return False
ProcessNextPdf ==
    /\ orch.pc = "process"
    /\ IF AvailablePdfs(table) = {}
       THEN /\ orch' = [orch EXCEPT !.result = "False", !.pc = "account"]
            /\ OrchReads
            /\ UNCHANGED ms
       ELSE \E pdf_item \in AvailablePdfs(table), fault \in Faults :
               /\ OrchWrites(get_available_pdf(table, pdf_item, fault),
                             pdf_item.input_path)
               /\ orch' = IF fault = "none"
                          THEN [orch EXCEPT !.input_path = pdf_item.input_path,
                                            !.got = pdf_item.input_path,
                                            !.pc = "download"]
                          ELSE [orch EXCEPT !.result = "False", !.failure = "claim",
                                            !.pc = "account"]

\* process_next_pdf: download_pdf; a failed download reverts the claim and
\* process_single_pdf returns False
DownloadPdf ==
    /\ orch.pc = "download"
    /\ \/ /\ orch' = [orch EXCEPT !.pc = "ocr"]
          /\ OrchReads
          /\ UNCHANGED ms
       \/ \E fault \in Faults :
             /\ OrchWrites(revert_status(table, orch.input_path, FALSE, fault),
                           orch.input_path)
             /\ orch' = [orch EXCEPT !.result = "False", !.input_path = 0,
                                     !.failure = "download", !.pc = "account"]

\* apply_ocr returns (output_path, False) or (None, True); the error is
\* reverted with error_occurred and process_single_pdf returns None
ApplyOcr ==
    /\ orch.pc = "ocr"
    /\ \/ /\ orch' = [orch EXCEPT !.pc = "upload"]
          /\ OrchReads
          /\ UNCHANGED ms
       \/ \E fault \in Faults :
             /\ OrchWrites(revert_status(table, orch.input_path, TRUE, fault),
                           orch.input_path)
             /\ orch' = [orch EXCEPT !.result = "None", !.input_path = 0,
                                     !.failure = "ocr", !.pc = "account"]

\* self.uploader.upload_pdf(ocr_output_path, input_path, is_historic): one
\* argument more than upload_pdf takes, a TypeError that `except Exception`
\* reverts with error_occurred=True; process_single_pdf returns None
UploadPdf ==
    /\ orch.pc = "upload"
    /\ \E fault \in Faults :
          /\ OrchWrites(revert_status(table, orch.input_path, TRUE, fault),
                        orch.input_path)
          /\ orch' = [orch EXCEPT !.result = "None", !.input_path = 0,
                                  !.failure = "upload", !.pc = "account"]

\* run_continuous_processing: the three branches on result
RunContinuousAccount ==
    /\ orch.program = "run_continuous_processing"
    /\ orch.pc = "account"
    /\ LET processed == IF orch.result = "True" THEN orch.processed_in_session + 1
                        ELSE orch.processed_in_session
           errors == IF orch.result = "None" THEN orch.error_in_session + 1
                     ELSE orch.error_in_session
           idle == ConsecutiveNoFiles(orch.consecutive_no_files, orch.result)
           o == [orch EXCEPT !.processed_in_session = processed,
                             !.error_in_session = errors,
                             !.consecutive_no_files = idle,
                             !.results = Append(@, orch.result)]
       IN orch' = IF orch.result = "False"
                  THEN IF idle >= IdleLimit
                       THEN [o EXCEPT !.pc = "final", !.stopped = "idle"]
                       ELSE [o EXCEPT !.pc = "loop"]
                  ELSE IF processed % CountsEvery = 0 \/ errors % CountsEvery = 0
                       THEN [o EXCEPT !.pc = "counts"]
                       ELSE [o EXCEPT !.pc = "loop"]
    /\ OrchReads
    /\ UNCHANGED ms

\* process_continuous: `if success: ... else: break`
ProcessContinuousAccount ==
    /\ orch.program = "process_continuous"
    /\ orch.pc = "account"
    /\ orch' = IF orch.result = "True"
               THEN [orch EXCEPT !.processed_count = @ + 1,
                                 !.results = Append(@, orch.result),
                                 !.pc = "loop"]
               ELSE [orch EXCEPT !.results = Append(@, orch.result),
                                 !.stopped = "falsy result",
                                 !.pc = "return"]
    /\ OrchReads
    /\ UNCHANGED ms

\* current_counts = self.get_table_counts(), and the milestone check when
\* the scan answered
CurrentCounts ==
    /\ orch.pc = "counts"
    /\ \E fault \in ScanFaults :
          IF fault # "none"
          THEN orch' = [orch EXCEPT !.pc = "loop"] /\ UNCHANGED ms
          ELSE /\ orch' = [orch EXCEPT !.counts = get_table_counts(table),
                                       !.pc = "loop"]
               /\ ms' = BeginCheck(ms, get_table_counts(table))
    /\ OrchReads

\* after the loop: final_counts, and the milestone check when nothing is
\* pending nor in process and milestones_sent[100] is not set
FinalCounts ==
    /\ orch.pc = "final"
    /\ ms.pc = "idle"
    /\ \E fault \in ScanFaults :
          IF fault # "none"
          THEN orch' = [orch EXCEPT !.pc = "returning"] /\ UNCHANGED ms
          ELSE LET final_counts == get_table_counts(table)
               IN /\ orch' = [orch EXCEPT !.counts = final_counts,
                                          !.pc = "returning"]
                  /\ ms' = IF /\ final_counts.pending = 0
                              /\ final_counts.in_process = 0
                              /\ ~ms.milestones_sent[AbsoluteMilestone]
                           THEN BeginCheck(ms, final_counts)
                           ELSE ms
    /\ OrchReads

\* run_continuous_processing returns True: sys.exit(0)
RunContinuousReturn ==
    /\ orch.pc = "returning"
    /\ ms.pc = "idle"
    /\ orch' = Exit(orch, "0", orch.stopped)
    /\ OrchReads
    /\ UNCHANGED ms

\* full_process.py main: sys.exit(0) if processed > 0, else sys.exit(1)
ProcessContinuousReturn ==
    /\ orch.pc = "return"
    /\ orch' = Exit(orch, IF orch.processed_count > 0 THEN "0" ELSE "1", orch.stopped)
    /\ OrchReads
    /\ UNCHANGED ms

\* send_email raised something that is not a ClientError: nothing catches it
\* before main, `except Exception: sys.exit(1)`
NotifierRaised ==
    /\ orch.pc \in {"loop", "returning"}
    /\ ms.pc = "raised"
    /\ orch' = Exit(orch, "1", "notifier")
    /\ OrchReads
    /\ UNCHANGED ms

\* KeyboardInterrupt between two store calls of different operations
KeyboardInterrupt ==
    /\ orch.pc \notin {"none", "exit"}
    /\ orch' = Exit(orch, "130", "interrupt")
    /\ OrchReads
    /\ UNCHANGED ms

\* KeyboardInterrupt between the delete_item and the put_item of the claim or
\* of revert_status: `except ClientError` and `except Exception` let it pass
KeyboardInterruptInWrite ==
    /\ \/ /\ orch.pc = "process"
          /\ \E pdf_item \in AvailablePdfs(table) :
                OrchWrites(get_available_pdf(table, pdf_item, "put"),
                           pdf_item.input_path)
       \/ /\ orch.pc \in {"download", "ocr", "upload"}
          /\ \E error_occurred \in {orch.pc # "download"} :
                OrchWrites(revert_status(table, orch.input_path, error_occurred, "put"),
                           orch.input_path)
    /\ orch' = Exit(orch, "130", "interrupt")

NextOrch ==
    \/ RunContinuousProcessing
    \/ SendStartupEmail
    \/ RunContinuousIterate
    \/ ProcessContinuousIterate
    \/ ProcessNextPdf
    \/ DownloadPdf
    \/ ApplyOcr
    \/ UploadPdf
    \/ RunContinuousAccount
    \/ ProcessContinuousAccount
    \/ CurrentCounts
    \/ FinalCounts
    \/ RunContinuousReturn
    \/ ProcessContinuousReturn
    \/ MilestoneFiles
    \/ MilestonePercent
    \/ NotifierRaised
    \/ KeyboardInterrupt
    \/ KeyboardInterruptInWrite

SpecOrch == InitOrch /\ [][NextOrch]_vars

\* -------------------------------------------------------------- local files
\* Workers started in one working directory each run process_single_pdf
\* (full_process.py); they share pdfs_to_process/ and pdfs_with_ocr/. A file
\* is known by its directory and the file name of the S3 key, and holds the
\* input_path its content was downloaded or derived from.
FileNames == {"a.pdf", "b.pdf"}
LocalFiles == {"pdfs_to_process", "pdfs_with_ocr"} \X FileNames
NoFile == 0

\* os.path.join(self.local_dir, os.path.basename(key))
LocalPath(basename, p) == <<"pdfs_to_process", basename[p]>>

\* os.path.join(self.output_dir, f"{name}_ocr{ext}") for the name of the input
OcrOutputPath(local_path) == <<"pdfs_with_ocr", local_path[2]>>

\* cleanup_local_files(*file_paths): os.remove of each path that exists
cleanup_local_files(files, file_paths) ==
    [f \in LocalFiles |-> IF f \in file_paths THEN NoFile ELSE files[f]]

InitLocal ==
    /\ table \in {WithOutputPaths(t) : t \in {l \in OneItemLedgers :
                      \A k \in Keys : l[k].exists => k[2] = "false"}}
    /\ lastObs = [p \in Paths |-> StatusSet(table, p)]
    /\ LedgerAtRest
    /\ orch = NoOrch
    /\ ms = NoMilestones
    /\ pct = NoPercent
    /\ local \in {[pc |-> "run", basename |-> b,
                    files |-> [f \in LocalFiles |-> NoFile],
                    worker |-> [w \in Workers |->
                                  [pc |-> "idle", input_path |-> 0,
                                   local_path |-> NoAttr,
                                   ocr_output_path |-> NoAttr,
                                   result |-> "none"]]] :
                        b \in [Paths -> FileNames]}

\* what no step of a worker in the directory touches
LocalFrame ==
    UNCHANGED <<returned, downstream, workerVars, resetVars, ingestVars,
                lastCall, orch, ms, pct>>

\* process_next_pdf: get_available_pdf; without a PDF, or after a
\* ClientError, process_single_pdf returns False
LocalProcessNextPdf(w) ==
    /\ local.pc = "run"
    /\ local.worker[w].pc = "idle"
    /\ IF AvailablePdfs(table) = {}
       THEN /\ local' = [local EXCEPT !.worker[w].result = "False",
                                      !.worker[w].pc = "done"]
            /\ UNCHANGED <<table, lastObs, rStart>> /\ LocalFrame
       ELSE \E pdf_item \in AvailablePdfs(table), fault \in Faults :
               /\ Write(get_available_pdf(table, pdf_item, fault))
               /\ Wrote(pdf_item.input_path)
               /\ LocalFrame
               /\ local' = IF fault = "none"
                           THEN [local EXCEPT
                                    !.worker[w].input_path = pdf_item.input_path,
                                    !.worker[w].pc = "download"]
                           ELSE [local EXCEPT !.worker[w].result = "False",
                                              !.worker[w].pc = "done"]

\* download_pdf: download_file writes local_path, over whatever is there; a
\* failed download reverts the claim and process_single_pdf returns False
LocalDownloadPdf(w) ==
    /\ local.pc = "run"
    /\ local.worker[w].pc = "download"
    /\ LET input_path == local.worker[w].input_path
           local_path == LocalPath(local.basename, input_path)
       IN \/ /\ local' = [local EXCEPT !.files[local_path] = input_path,
                                       !.worker[w].local_path = local_path,
                                       !.worker[w].pc = "ocr"]
             /\ UNCHANGED <<table, lastObs, rStart>> /\ LocalFrame
          \/ \E fault \in Faults :
                /\ Write(revert_status(table, input_path, FALSE, fault))
                /\ Wrote(input_path)
                /\ LocalFrame
                /\ local' = [local EXCEPT !.worker[w].result = "False",
                                          !.worker[w].pc = "done"]

\* apply_ocr(local_path): (None, True) when local_path does not exist or the
\* OCR fails, else the output written from what local_path holds; the error
\* is reverted, local_path removed and process_single_pdf returns None
LocalApplyOcr(w) ==
    /\ local.pc = "run"
    /\ local.worker[w].pc = "ocr"
    /\ LET input_path == local.worker[w].input_path
           local_path == local.worker[w].local_path
           output_path == OcrOutputPath(local_path)
       IN \/ /\ local.files[local_path] # NoFile
             /\ local' = [local EXCEPT
                             !.files[output_path] = local.files[local_path],
                             !.worker[w].ocr_output_path = output_path,
                             !.worker[w].pc = "upload"]
             /\ UNCHANGED <<table, lastObs, rStart>> /\ LocalFrame
          \/ \E fault \in Faults :
                /\ Write(revert_status(table, input_path, TRUE, fault))
                /\ Wrote(input_path)
                /\ LocalFrame
                /\ local' = [local EXCEPT
                                !.files = cleanup_local_files(@, {local_path}),
                                !.worker[w].result = "None",
                                !.worker[w].pc = "done"]

\* self.uploader.upload_pdf(ocr_output_path, input_path, is_historic): the
\* TypeError goes to `except Exception`: revert_status with
\* error_occurred=True, cleanup_local_files(local_path, ocr_output_path),
\* return None
LocalUploadPdf(w) ==
    /\ local.pc = "run"
    /\ local.worker[w].pc = "upload"
    /\ \E fault \in Faults :
          /\ Write(revert_status(table, local.worker[w].input_path, TRUE, fault))
          /\ Wrote(local.worker[w].input_path)
          /\ LocalFrame
          /\ local' = [local EXCEPT
                          !.files = cleanup_local_files(@,
                                        {local.worker[w].local_path,
                                         local.worker[w].ocr_output_path}),
                          !.worker[w].result = "None",
                          !.worker[w].pc = "done"]

NextLocal ==
    \E w \in Workers :
        \/ LocalProcessNextPdf(w)
        \/ LocalDownloadPdf(w)
        \/ LocalApplyOcr(w)
        \/ LocalUploadPdf(w)

SpecLocal == InitLocal /\ [][NextLocal]_vars

\* ------------------------------------------------------------------ startup
\* main_run.py from the constructor of OCROrchestrator to the first claim,
\* under every config.conf the constructors may find: complete and right;
\* absent, or without a section or an option they read; with a region, table
\* or credentials the store refuses; with a sender or recipients SES refuses
InitStartup ==
    /\ table \in {t \in InitialLedgers : \A k \in Keys : t[k].output_path = NoAttr}
    /\ lastObs = [p \in Paths |-> StatusSet(table, p)]
    /\ LedgerAtRest
    /\ orch \in {[OrchStart("run_continuous_processing", 0)
                      EXCEPT !.config = c, !.pc = "init"] :
                    c \in {"valid", "missing", "invalid store", "invalid mail"}}
    /\ ms = OrchestratorMilestones
    /\ pct = NoPercent
    /\ local = NoLocal

\* OCROrchestrator(args.config): the constructors read config.conf with
\* config.get, which raises when the section or the option is not there;
\* the boto3 clients and the Table object are built without any call
OrchestratorInit ==
    /\ orch.pc = "init"
    /\ orch' = IF orch.config = "missing" THEN Exit(orch, "1", "configuration")
               ELSE [orch EXCEPT !.pc = "start"]
    /\ OrchReads
    /\ UNCHANGED ms

NextStartup ==
    \/ OrchestratorInit
    \/ RunContinuousProcessing
    \/ SendStartupEmail
    \/ RunContinuousIterate
    \/ ProcessNextPdf

SpecStartup == InitStartup /\ [][NextStartup]_vars

\* ------------------------------------------------------------------ claims
\* the ingestor has gone past path p at least once
Ingested(p) == iRuns >= 1 \/ (ipc # "idle" /\ iPath > p)

\* worker w is in the store call that ends a step of kind `at`
Completes(w, at) == pc[w] = at /\ pc'[w] # at

\* C1: in every reachable state the table holds at most one item per
\* input_path, under any interleaving of ingestion, claim, commit and reset.
C1_OneRecordPerInputPath ==
    \A p \in Paths : Cardinality(StatusSet(table, p)) <= 1

\* C2: once an input_path has been ingested the table holds an item for it
\* in every reachable state, the states between the two store calls of a
\* status transition and after a store error included.
C2_NoJobLost ==
    \A p \in Paths : Ingested(p) => StatusSet(table, p) # {}

\* C3: an input_path is never returned by a second get_available_pdf call
\* unless an item for it was put back under 'false' in between.
C3_AtMostOneClaim ==
    \A p \in Paths : returned[p] <= 1

\* C4: for every input_path at most one update_dynamodb_success commit
\* happens, and a path whose item is 'true' is never claimed again.
C4_AtMostOneSuccess ==
    [][\A w \in Workers :
          (Completes(w, "success_put") \/ Completes(w, "claim_put"))
              => ~Has(table, job[w].input_path, "true")]_vars

\* the edges of the job state machine
LegalEdge(r, s) ==
    \/ r = "false" /\ s = "in_process"
    \/ r = "in_process" /\ s \in {"true", "error", "false"}

\* C5: every status that appears in the table for an input_path is 'false'
\* when the path was never seen before, and otherwise follows by one edge
\* Pending -> Claimed -> Done | Failed | Pending from a status observed last.
C5_StatusEdges ==
    [][\A p \in Paths : \A s \in StatusSet(table', p) \ lastObs[p] :
          IF lastObs[p] = {} THEN s = "false"
          ELSE \E r \in lastObs[p] : LegalEdge(r, s)]_vars

\* C6: once an input_path has an item under 'true' or 'error', no step puts
\* an item for it under 'false' or 'in_process'.
C6_TerminalStatuses ==
    [][\A p \in Paths :
          (Has(table, p, "true") \/ Has(table, p, "error"))
              => \A s \in {"false", "in_process"} :
                    Has(table', p, s) => Has(table, p, s)]_vars

\* C7: every item carries the output_path its job was given at ingestion.
C7_OutputPathKept ==
    \A k \in Keys :
        table[k].exists => table[k].output_path = generate_output_path(k[1])

\* C8: every item carries odoo_loaded as the downstream consumer left it
\* for its job; the core writes the default only on first creation.
C8_OdooLoadedPreserved ==
    \A k \in Keys :
        table[k].exists => GetOdooLoaded(table[k]) = downstream[k[1]]

C10_IngestKeepsStatus ==
    [][\A p \in Paths :
          /\ StatusSet(table, p) # {} => StatusSet(table', p) = StatusSet(table, p)
          /\ StatusSet(table, p) = {} =>
                /\ StatusSet(table', p) \subseteq {"false"}
                /\ table'[<<p, "false">>] \in
                       {NoItem, Item(generate_output_path(p), "false")}
          /\ \A s \in StatusSet(table, p) :
                \/ table'[<<p, s>>] = table[<<p, s>>]
                \/ /\ table[<<p, s>>].output_path = NoAttr
                   /\ table'[<<p, s>>] =
                          [table[<<p, s>>] EXCEPT
                              !.output_path = generate_output_path(p)]]_vars

\* the three commits (revert_status with either value of error_occurred)
CommitOps ==
    {"update_dynamodb_success", "update_dynamodb_failure", "revert_status",
     "revert_status_error"}

\* C11: a commit called for an input_path that has no 'in_process' item
\* leaves the table as it is and reports the conflict to its caller.
C11_CommitOnlyOnClaimed ==
    [][(lastCall'.op \in CommitOps /\ ~lastCall'.found)
          => (table' = table /\ lastCall'.result = "Conflict")]_vars

\* C12: update_dynamodb_success on a path that has an 'in_process' item
\* removes that item, puts the path's item under 'true' with the output_path
\* given, and changes the item of no other key.
C12_SuccessMovesToDone ==
    [][\A p \in Paths :
          (/\ lastCall'.op = "update_dynamodb_success"
           /\ lastCall'.input_path = p
           /\ lastCall'.found
           /\ lastCall'.fault = "none")
          => /\ ~Has(table', p, "in_process")
             /\ Has(table', p, "true")
             /\ table'[<<p, "true">>].output_path = generate_output_path(p)
             /\ \A k \in Keys \ {<<p, "in_process">>, <<p, "true">>} :
                   table'[k] = table[k]]_vars

\* the last call committed Success on a Claimed path, which is now Done with
\* its output_path, while another path is Pending
C12_Witness ==
    /\ lastCall.op = "update_dynamodb_success"
    /\ lastCall.found
    /\ lastCall.fault = "none"
    /\ StatusSet(table, lastCall.input_path) = {"true"}
    /\ table[<<lastCall.input_path, "true">>].output_path
           = generate_output_path(lastCall.input_path)
    /\ \E q \in Paths \ {lastCall.input_path} : StatusSet(table, q) = {"false"}

\* C13: update_dynamodb_success called again with the same input_path and
\* output_path, right after a call that met no store error, leaves the table
\* exactly as that call left it.
C13_SuccessIdempotent ==
    [][(/\ lastCall'.op = "update_dynamodb_success"
        /\ lastCall'.again
        /\ lastCall'.fault = "none")
          => table' = table]_vars

\* the Success commit of a path has just been repeated: the path has its one
\* item, under 'true', with the output_path of the first call
C13_Witness ==
    /\ lastCall.op = "update_dynamodb_success"
    /\ lastCall.again
    /\ lastCall.fault = "none"
    /\ ~lastCall.found
    /\ StatusSet(table, lastCall.input_path) = {"true"}
    /\ table[<<lastCall.input_path, "true">>]
           = SuccessItem(generate_output_path(lastCall.input_path))

C15_FailedNeverClaimed ==
    [][\A w \in Workers :
          Completes(w, "claim_put") => ~Has(table, job[w].input_path, "error")]_vars

\* C16: the revert_status call of the handler of an unexpected exception of
\* the processing step puts no item under 'error'.
C16_TransientNotFailed ==
    [][\A w \in Workers :
          Completes(w, "except_put")
              => table'[<<job[w].input_path, "error">>]
                     = table[<<job[w].input_path, "error">>]]_vars

\* C17: the sweep does not delete the 'in_process' item of a job that a
\* worker claimed and is still processing.
C17_ResetOnlyStale ==
    [][(rpc = "delete" /\ rpc' = "put")
          => ~\E w \in Workers :
                /\ pc[w] = "processing"
                /\ job[w].input_path = Head(rItems).input_path
                /\ Has(table, job[w].input_path, "in_process")]_vars

\* C18: when the path of the item the sweep is rewriting has an item under
\* 'true', 'error' or 'false' by the time of the sweep's put_item, its worker
\* has moved the job on and the sweep's put_item changes nothing.
C18_ResetSkipsMovedOn ==
    [][(/\ rpc = "put"
        /\ rpc' # "put"
        /\ \E s \in {"true", "error", "false"} :
              Has(table, Head(rItems).input_path, s))
          => table' = table]_vars

C20_NoneLeavesTable ==
    [][(lastCall'.op = "get_available_pdf" /\ lastCall'.result = "None")
          => table' = table]_vars

\* C25: the percentage computed for a notification is floor(done * 100 /
\* total) when total > 0, and 0 when total = 0.
C25_PercentIsFloor ==
    pct.pc \in {"send_startup_email", "check_and_send_milestone_email"}
        => pct.progress_percent =
               IF pct.total = 0 THEN 0 ELSE (pct.completed * 100) \div pct.total

\* C23: no milestone notification is sent twice in one run, neither by
\* check_and_send_milestone_email over any sequence of counts nor by the loop
\* of sync_odoo_to_s3_and_dynamodb.
C23_MilestoneSentOnce ==
    ms.pc # "none" => \A n \in DOMAIN ms.sent : ms.sent[n] <= 1

\* a notification was sent once and its threshold was met by two polls or more
C23_Witness ==
    /\ ms.pc = "idle"
    /\ ms.run = "orchestrator"
    /\ \E n \in Notifications : ms.sent[n] = 1 /\ ms.polled[n] >= 2

\* C24: when a call of check_and_send_milestone_email has returned, every
\* threshold its counts are at or above has had its notification sent, in
\* this call or in an earlier one.
C24_MilestoneFiresWhenReached ==
    (ms.pc = "idle" /\ ms.run = "orchestrator" /\ ms.checks >= 1)
        => \A n \in Notifications :
              AtOrAbove(n, ms.counts) => ms.tried[n] >= 1

\* C21: while a worker that claimed a job stays in processing (it crashed
\* before any commit) and no reset sweep has started, the job's item is
\* under 'in_process' and no other worker holds the same job.
C21_CrashedJobStaysClaimed ==
    \A w \in Workers :
        (pc[w] = "processing" /\ resets = 0)
            => /\ Has(table, job[w].input_path, "in_process")
               /\ \A v \in Workers \ {w} :
                     ~(pc[v] = "processing" /\ job[v].input_path = job[w].input_path)

\* C22: when the orchestrator exits on a KeyboardInterrupt with a job in
\* flight, the job's item exists under 'in_process'.
C22_InterruptLeavesClaimed ==
    (/\ orch.program = "run_continuous_processing"
     /\ orch.pc = "exit"
     /\ orch.exit = "130"
     /\ orch.input_path # 0)
        => Has(table, orch.input_path, "in_process")

\* the number of items the table holds under status s
RecordsIn(t, s) == Cardinality({p \in Paths : Has(t, p, s)})

\* C26: get_table_counts returns the exact number of items of each status
\* over all scan pages, and total is their sum.
C26_CountsExact ==
    orch.pc = "startup_email"
        => /\ orch.counts.pending = RecordsIn(table, "false")
           /\ orch.counts.in_process = RecordsIn(table, "in_process")
           /\ orch.counts.completed = RecordsIn(table, "true")
           /\ orch.counts.errors = RecordsIn(table, "error")
           /\ orch.counts.total = Cardinality({k \in Keys : table[k].exists})

\* one Done and two Pending items, on more than one scan page, counted
C26_Witness ==
    /\ orch.pc = "startup_email"
    /\ RecordsIn(table, "true") = 1
    /\ RecordsIn(table, "false") = 2
    /\ orch.counts.completed = 1
    /\ orch.counts.pending = 2

RECURSIVE TrailingNoFiles(_)
\* how many results at the end of the sequence are False
TrailingNoFiles(results) ==
    IF results = <<>> \/ results[Len(results)] # "False" THEN 0
    ELSE 1 + TrailingNoFiles(SubSeq(results, 1, Len(results) - 1))

C28_IdleOnlyWithoutCandidate ==
    (/\ orch.program = "run_continuous_processing"
     /\ orch.pc = "account"
     /\ orch.result = "False")
        => orch.got = 0

\* C29: after an iteration in which the claimed job failed (result None)
\* neither loop ends.
C29_FailureNeverEndsLoop ==
    [][(orch.pc = "account" /\ orch.result = "None")
          => orch'.pc \notin {"final", "return"}]_vars

\* C30: the orchestrator never exits because a notification could not be
\* sent.
C30_NotifierNeverAborts ==
    ~(orch.pc = "exit" /\ orch.cause = "notifier")

\* C31: with a cap m, process_continuous makes at most m iterations (one
\* call of process_single_pdf each); without a cap, and with the store
\* answering the claim, it returns only when no job is available.
C31_IterationCap ==
    orch.program = "process_continuous"
        => /\ orch.max_iterations # 0 => orch.iteration <= orch.max_iterations
           /\ (orch.max_iterations = 0 /\ orch.pc = "return" /\ orch.failure # "claim")
                 => AvailablePdfs(table) = {}

\* the run met an error: a store or notifier failure, a failed job, or a
\* failure of the claim or the download
RunHadError(o) ==
    \/ o.cause \in {"store", "notifier"}
    \/ o.failure # "none"
    \/ \E i \in 1..Len(o.results) : o.results[i] = "None"

\* C32: a run exits with 130 exactly when it was interrupted, and a run that
\* met no error does not exit with 1.
C32_ExitCodes ==
    orch.pc = "exit"
        => /\ orch.exit = "130" <=> orch.cause = "interrupt"
           /\ orch.exit = "1" => RunHadError(orch)
\* C34: no result of get_table_counts or get_quick_pending_count ends the
\* run or keeps the orchestrator out of its loop: it never exits because the
\* count scan failed or because the counts show nothing pending, and never
\* leaves the loop on the quick count.
C34_CountsOnlyReported ==
    /\ orch.cause \notin {"store", "nothing pending"}
    /\ orch.stopped # "quick"

\* C35: when a claimed job's download and OCR succeeded and the upload step
\* has run, process_single_pdf returns True and the job's item is under
\* 'true' with an output_path.
C35_PipelineSucceeds ==
    [][(orch.pc = "upload" /\ orch'.pc = "account")
          => /\ orch'.result = "True"
             /\ Has(table', orch.input_path, "true")
             /\ table'[<<orch.input_path, "true">>].output_path # NoAttr]_vars

\* C36: when run_continuous_processing has left its loop and returned True,
\* its last claim not having met a store error, no item is under 'false'.
C36_ReturnsWhenNothingPending ==
    (/\ orch.program = "run_continuous_processing"
     /\ orch.pc = "exit"
     /\ orch.exit = "0"
     /\ orch.iteration >= 1
     /\ orch.failure # "claim")
        => RecordsIn(table, "false") = 0

\* C38: the count scan and the milestone check run only after an iteration
\* that brought the number of jobs processed in the session to a positive
\* multiple of 5.
C38_CountsEveryFiveSuccesses ==
    [][(orch.pc = "account" /\ orch'.pc = "counts")
          => /\ orch'.processed_in_session > 0
             /\ orch'.processed_in_session % CountsEvery = 0]_vars
\* C33: with a missing or invalid configuration the orchestrator changes no
\* item and never gets to its processing loop.
C33_ConfigErrorIsFatal ==
    [][orch.config # "valid"
          => /\ table' = table
             /\ orch'.pc \in {"init", "start", "startup_email", "exit"}]_vars
\* C37: a call of get_available_pdf that claims a Pending item with an
\* output_path leaves an 'in_process' item with that output_path and the
\* odoo_loaded the Pending item had.
C37_ClaimKeepsAttributes ==
    [][(/\ lastCall'.op = "get_available_pdf"
        /\ lastCall'.result = "input_path"
        /\ table[<<lastCall'.input_path, "false">>].output_path # NoAttr)
          => LET pending == table[<<lastCall'.input_path, "false">>]
                 claimed == table'[<<lastCall'.input_path, "in_process">>]
             IN  /\ claimed.exists
                 /\ claimed.output_path = pending.output_path
                 /\ GetOdooLoaded(claimed) = GetOdooLoaded(pending)]_vars
\* C39: once the sync daemon has received SIGTERM or SIGINT, the
\* synchronisation may finish the document it is at and goes on to no
\* further document.
C39_SignalStopsSync ==
    [][(ms.run = "sync" /\ ~ms.running) => ms'.index = ms.index]_vars
\* the local files a worker has made and not yet removed: local_path from
\* the download on, ocr_output_path from the OCR on
LocalInUse(w) ==
    IF local.worker[w].pc \notin {"ocr", "upload"} THEN {}
    ELSE {local.worker[w].local_path, local.worker[w].ocr_output_path} \ {NoAttr}

\* C40: no step of a worker removes a local file that another worker, in the
\* middle of its own job, has made and still uses.
C40_NoLocalInterference ==
    [][\A w \in Workers : \A f \in LocalInUse(w) :
          (local'.worker[w] = local.worker[w] /\ local.files[f] # NoFile)
              => local'.files[f] # NoFile]_vars

====
